---- MODULE Spec2Model ----
(***************************************************************************)
(* Board-state engine of the minesweeper board plugin.                     *)
(*                                                                         *)
(* The state is the Board resource (tile map, covered-tile registry), the  *)
(* tile-cover entities of the world with their Uncover marker, and the     *)
(* command buffers of the two systems of the update stage.  One frame      *)
(* ("tick") runs trigger_event_handler and uncover_tiles once each, in     *)
(* either order, and then applies their command buffers: a command         *)
(* (insert Uncover, despawn) has no effect on the world before that.       *)
(***************************************************************************)
EXTENDS Integers, Sequences, FiniteSets, TLC

\* Bounds of the model (the program takes them from BoardOptions).
Width == 3
Height == 2
MaxBombCount == 2
MaxTriggers == 2
MaxEventsPerFrame == 2

VARIABLES
    options,        \* BoardOptions: bomb_count, safe_start
    tile_map,       \* Board.tile_map: Coordinates -> Tile
    covered_tiles,  \* Board.covered_tiles: Coordinates -> cover Entity (partial)
    covers,         \* the tile-cover entities that exist in the world
    uncover,        \* the entities that carry the Uncover component
    trigger_cmds,   \* command buffer of trigger_event_handler, this frame
    uncover_cmds,   \* command buffer of uncover_tiles, this frame
    events,         \* the trigger events the handler read this frame
    ran,            \* the systems that already ran this frame
    boom,           \* coordinates for which "Boom !" was signalled this frame
    triggered,      \* history: coordinates scheduled by a trigger event
    uncovered,      \* history: per coordinate, number of successful uncovers
    stale,          \* coordinates whose try_uncover_tile gave None this frame
    duplicated,     \* covers marked Uncover by more than one insertion last frame
    triggers_left   \* trigger events the input layer may still send

vars == <<options, tile_map, covered_tiles, covers, uncover, trigger_cmds,
          uncover_cmds, events, ran, boom, triggered, uncovered, stale, duplicated,
          triggers_left>>

----------------------------------------------------------------------------
\* Coordinates, tiles, entities

Coords == (0 .. Width - 1) \X (0 .. Height - 1)

\* Coordinates a trigger event may carry: the grid and one column and one
\* row beyond it (an out-of-range click).
EventCoords == (0 .. Width) \X (0 .. Height)

Empty == [kind |-> "Empty", count |-> 0]
BombTile == [kind |-> "Bomb", count |-> 0]
BombNeighborTile(n) == [kind |-> "BombNeighbor", count |-> n]

None == <<"none">>

CoverEntity(c) == <<"cover", c[1], c[2]>>
TileEntity(c) == <<"tile", c[1], c[2]>>
Parent(e) == <<"tile", e[2], e[3]>>
Coordinates(t) == <<t[2], t[3]>>

Abs(n) == IF n < 0 THEN -n ELSE n

Max(a, b) == IF a > b THEN a ELSE b

Min(a, b) == IF a < b THEN a ELSE b

Chebyshev(a, b) == Max(Abs(a[1] - b[1]), Abs(a[2] - b[2]))

\* Row-major order: y ascending, then x ascending.
RowMajor == [i \in 1 .. Width * Height |-> <<(i - 1) % Width, (i - 1) \div Width>>]

----------------------------------------------------------------------------
\* TileMap generation (resources/tile_map.rs)

Neighbors(c) == {d \in Coords : Chebyshev(c, d) = 1}

\* Number of bombs around c.
bomb_count_at(bombs, c) == Cardinality(Neighbors(c) \cap bombs)

\* The tile kinds derived from the bomb positions.
TilesOf(bombs) ==
    [c \in Coords |->
        IF c \in bombs THEN BombTile
        ELSE IF bomb_count_at(bombs, c) > 0
             THEN BombNeighborTile(bomb_count_at(bombs, c))
             ELSE Empty]

\* The bomb sets set_bombs may place for a bomb count: distinct cells,
\* capped at the number of cells.
BombSets(bomb_count) ==
    {b \in SUBSET Coords : Cardinality(b) = Min(bomb_count, Width * Height)}

\* A variant of build_map that leaves the empty map as it is.
build_map_no_bombs(bomb_count) == {TilesOf({})}

\* build_map: an empty map of the configured size, then set_bombs.
build_map(bomb_count) == {TilesOf(b) : b \in BombSets(bomb_count)}

----------------------------------------------------------------------------
\* Board (resources/board.rs)

\* Board::tile_to_uncover: the cover entity of a covered coordinate.
tile_to_uncover(covered, c) ==
    IF c \in DOMAIN covered THEN covered[c] ELSE None

\* Board::try_uncover_tile: removes the coordinate from the registry and
\* returns the entity it held, None when it held none.
try_uncover_tile(covered, c) ==
    [ret |-> IF c \in DOMAIN covered THEN covered[c] ELSE None,
     covered |-> [d \in DOMAIN covered \ {c} |-> covered[d]]]

\* The eight neighbour offsets, in the order the board walks them.
SQUARE_COORDINATES ==
    << <<-1, -1>>, <<0, -1>>, <<1, -1>>,
       <<-1, 0>>,             <<1, 0>>,
       <<-1, 1>>,  <<0, 1>>,  <<1, 1>> >>

\* Board::adjacent_covered_tiles: the cover entities of the neighbours of c
\* that are in the registry.
adjacent_covered_tiles(covered, c) ==
    LET at(i) == <<c[1] + SQUARE_COORDINATES[i][1], c[2] + SQUARE_COORDINATES[i][2]>>
        from[i \in 0 .. 8] ==
            IF i = 0 THEN <<>>
            ELSE IF at(i) \in DOMAIN covered
                 THEN Append(from[i - 1], covered[at(i)])
                 ELSE from[i - 1]
    IN from[8]

----------------------------------------------------------------------------
\* Board construction (lib.rs)

\* A variant of insert_cover without the is_none test: the last cover over
\* an Empty tile becomes the safe-start entity.
spawn_tiles_last_empty(tiles) ==
    LET upto[i \in 0 .. Width * Height] ==
            IF i = 0 THEN [covered_tiles |-> [d \in {} |-> None], safe_start |-> None]
            ELSE LET coordinates == RowMajor[i]
                     entity == CoverEntity(coordinates)
                     prev == upto[i - 1]
                 IN [covered_tiles |->
                        [d \in DOMAIN prev.covered_tiles \cup {coordinates} |->
                            IF d = coordinates THEN entity ELSE prev.covered_tiles[d]],
                     safe_start |->
                        IF tiles[coordinates] = Empty
                        THEN entity ELSE prev.safe_start]
    IN upto[Width * Height]

\* spawn_tiles with insert_tile and insert_cover: one cover per tile, in
\* row-major order, registered in covered_tiles; the first cover over an
\* Empty tile becomes the safe-start entity.
spawn_tiles(tiles) ==
    LET upto[i \in 0 .. Width * Height] ==
            IF i = 0 THEN [covered_tiles |-> [d \in {} |-> None], safe_start |-> None]
            ELSE LET coordinates == RowMajor[i]
                     entity == CoverEntity(coordinates)
                     prev == upto[i - 1]
                 IN [covered_tiles |->
                        [d \in DOMAIN prev.covered_tiles \cup {coordinates} |->
                            IF d = coordinates THEN entity ELSE prev.covered_tiles[d]],
                     safe_start |->
                        IF prev.safe_start = None /\ tiles[coordinates] = Empty
                        THEN entity ELSE prev.safe_start]
    IN upto[Width * Height]

\* The components insert_bomb and insert_bomb_neighbor attach to a tile
\* entity, as the parents query of uncover_tiles reads them.
Bomb(t) == tile_map[Coordinates(t)].kind = "Bomb"

BombNeighbor(t) == tile_map[Coordinates(t)].kind = "BombNeighbor"

TileEntities == {TileEntity(c) : c \in Coords}

\* create_board: the world and the Board resource after the startup stage.
create_board_with(bomb_counts) ==
    \E opts \in [bomb_count : bomb_counts, safe_start : BOOLEAN] :
    \E tiles \in build_map(opts.bomb_count) :
        LET spawned == spawn_tiles(tiles)
        IN /\ options = opts
           /\ tile_map = tiles
           /\ covered_tiles = spawned.covered_tiles
           /\ covers = {CoverEntity(c) : c \in Coords}
           /\ uncover = IF opts.safe_start /\ spawned.safe_start # None
                        THEN {spawned.safe_start} ELSE {}

create_board == create_board_with(0 .. MaxBombCount)

\* What the systems and the input layer hold when the first frame starts.
first_frame(trigger_events) ==
    /\ trigger_cmds = <<>>
    /\ uncover_cmds = <<>>
    /\ events = <<>>
    /\ ran = {}
    /\ boom = {}
    /\ triggered = {}
    /\ uncovered = [c \in Coords |-> 0]
    /\ stale = {}
    /\ duplicated = {}
    /\ triggers_left = trigger_events

Init ==
    /\ create_board
    /\ first_frame(MaxTriggers)

\* Every bomb count up to one more than the number of cells, and an input
\* layer that never sends a trigger event.
InitAnyBombCount ==
    /\ create_board_with(0 .. Width * Height + 1)
    /\ first_frame(0)

----------------------------------------------------------------------------
\* Commands: recorded by a system, applied to the world at the end of the
\* stage.

InsertUncover(e) == <<"insert", e>>
DespawnRecursive(e) == <<"despawn", e>>

\* The coordinates of the tiles under a set of cover entities.
Coordinates_of(entities) == {Coordinates(Parent(e)) : e \in entities}

\* The entities a command buffer inserts Uncover on / despawns.
Inserted(cmds) == {cmds[i][2] : i \in {j \in DOMAIN cmds : cmds[j][1] = "insert"}}
Despawned(cmds) == {cmds[i][2] : i \in {j \in DOMAIN cmds : cmds[j][1] = "despawn"}}

\* The number of insertions of Uncover on an entity in a command buffer.
Insertions(cmds, e) == Cardinality({i \in DOMAIN cmds : cmds[i] = InsertUncover(e)})

\* Applies a command buffer, in order, to the world: the covers that exist
\* and the Uncover markers.  An insertion on an entity that no longer exists
\* marks nothing (CommandsFindEntity: the systems never record one).
apply(cmds, world) ==
    LET write(w, cmd) ==
            IF cmd[1] = "insert"
            THEN [covers |-> w.covers,
                  uncover |-> IF cmd[2] \in w.covers THEN w.uncover \cup {cmd[2]}
                              ELSE w.uncover]
            ELSE [covers |-> w.covers \ {cmd[2]}, uncover |-> w.uncover \ {cmd[2]}]
        after[i \in 0 .. Len(cmds)] ==
            IF i = 0 THEN world
            ELSE CHOOSE next \in {write(w, cmds[i]) : w \in {after[i - 1]}} : TRUE
    IN after[Len(cmds)]

----------------------------------------------------------------------------
\* systems/uncover.rs

\* A variant of the handler without the look-up in the registry: Uncover is
\* inserted on the cover of whatever coordinate the event names.
trigger_commands_unchecked(covered, evs) ==
    [i \in DOMAIN evs |-> InsertUncover(CoverEntity(evs[i]))]

\* trigger_event_handler: for every trigger event whose coordinate has a
\* cover in the registry, records the insertion of Uncover on that cover.
trigger_commands(covered, evs) ==
    LET upto[i \in 0 .. Len(evs)] ==
            IF i = 0 THEN <<>>
            ELSE IF tile_to_uncover(covered, evs[i]) # None
                 THEN Append(upto[i - 1],
                             InsertUncover(tile_to_uncover(covered, evs[i])))
                 ELSE upto[i - 1]
    IN upto[Len(evs)]

EventBatches ==
    UNION {[1 .. n -> EventCoords] : n \in 0 .. MaxEventsPerFrame}

trigger_event_handler ==
    /\ "trigger" \notin ran
    /\ \E sent \in EventBatches :
        /\ Len(sent) <= triggers_left
        /\ triggers_left' = triggers_left - Len(sent)
        /\ events' = sent
        /\ trigger_cmds' = trigger_commands(covered_tiles, sent)
        /\ triggered' = triggered \cup Coordinates_of(Inserted(trigger_cmds'))
    /\ ran' = ran \cup {"trigger"}
    /\ UNCHANGED <<options, tile_map, covered_tiles, covers, uncover,
                   uncover_cmds, boom, uncovered, stale, duplicated>>

\* Variants of the propagation: to the neighbours in the same row or column
\* only, and to the first neighbour only.
propagation_orthogonal(covered, coords) ==
    SelectSeq([i \in DOMAIN adjacent_covered_tiles(covered, coords) |->
                  InsertUncover(adjacent_covered_tiles(covered, coords)[i])],
              LAMBDA cmd : \/ Coordinates(Parent(cmd[2]))[1] = coords[1]
                           \/ Coordinates(Parent(cmd[2]))[2] = coords[2])

propagation_first_only(covered, coords) ==
    IF adjacent_covered_tiles(covered, coords) = <<>> THEN <<>>
    ELSE <<InsertUncover(adjacent_covered_tiles(covered, coords)[1])>>

\* The propagation of uncover_tiles from an uncovered tile: Uncover is
\* inserted on every cover adjacent to coords that the registry still holds.
propagation(covered, coords) ==
    [i \in DOMAIN adjacent_covered_tiles(covered, coords) |->
        InsertUncover(adjacent_covered_tiles(covered, coords)[i])]

\* What try_uncover_tile returned is only logged by uncover_tiles; the
\* model counts the Some results and collects the None ones.
logged(st, coords, ret) ==
    [st EXCEPT !.uncovered = IF ret # None THEN [@ EXCEPT ![coords] = @ + 1] ELSE @,
               !.stale = IF ret = None THEN @ \cup {coords} ELSE @]

\* Variants of the loop body with one slip each.
uncover_tile_no_despawn(st, entity) ==
    LET parent == Parent(entity)
        coords == Coordinates(parent)
        res == try_uncover_tile(st.covered, coords)
        removed == [logged(st, coords, res.ret) EXCEPT !.covered = res.covered]
    IN IF parent \notin TileEntities THEN st
       ELSE IF Bomb(parent) THEN [removed EXCEPT !.boom = @ \cup {coords}]
       ELSE IF ~BombNeighbor(parent)
            THEN [removed EXCEPT !.commands = @ \o propagation(res.covered, coords)]
       ELSE removed

\* Leaves the cover of a Bomb tile in place: the despawn comes after the
\* bomb check, which ends the iteration.
uncover_tile_keeps_bomb_cover(st, entity) ==
    LET despawned == [st EXCEPT !.commands = Append(@, DespawnRecursive(entity))]
        parent == Parent(entity)
        coords == Coordinates(parent)
        res == try_uncover_tile(st.covered, coords)
        kept == [logged(st, coords, res.ret) EXCEPT !.covered = res.covered]
        removed == [logged(despawned, coords, res.ret) EXCEPT !.covered = res.covered]
    IN IF parent \notin TileEntities THEN despawned
       ELSE IF Bomb(parent) THEN [kept EXCEPT !.boom = @ \cup {coords}]
       ELSE IF ~BombNeighbor(parent)
            THEN [removed EXCEPT !.commands = @ \o propagation(res.covered, coords)]
       ELSE removed

uncover_tile_neighbor_propagates(st, entity) ==
    LET despawned == [st EXCEPT !.commands = Append(@, DespawnRecursive(entity))]
        parent == Parent(entity)
        coords == Coordinates(parent)
        res == try_uncover_tile(st.covered, coords)
        removed == [logged(despawned, coords, res.ret) EXCEPT !.covered = res.covered]
    IN IF parent \notin TileEntities THEN despawned
       ELSE IF Bomb(parent) THEN [removed EXCEPT !.boom = @ \cup {coords}]
       ELSE [removed EXCEPT !.commands = @ \o propagation(res.covered, coords)]

uncover_tile_bomb_propagates(st, entity) ==
    LET despawned == [st EXCEPT !.commands = Append(@, DespawnRecursive(entity))]
        parent == Parent(entity)
        coords == Coordinates(parent)
        res == try_uncover_tile(st.covered, coords)
        removed == [logged(despawned, coords, res.ret) EXCEPT
                        !.covered = res.covered,
                        !.boom = IF Bomb(parent) THEN @ \cup {coords} ELSE @]
    IN IF parent \notin TileEntities THEN despawned
       ELSE IF ~BombNeighbor(parent)
            THEN [removed EXCEPT !.commands = @ \o propagation(res.covered, coords)]
       ELSE removed

uncover_tile_keeps_registry(st, entity) ==
    LET despawned == [st EXCEPT !.commands = Append(@, DespawnRecursive(entity))]
        parent == Parent(entity)
        coords == Coordinates(parent)
    IN IF parent \notin TileEntities THEN despawned
       ELSE IF Bomb(parent) THEN [despawned EXCEPT !.boom = @ \cup {coords}]
       ELSE IF ~BombNeighbor(parent)
            THEN [despawned EXCEPT !.commands = @ \o propagation(st.covered, coords)]
       ELSE despawned

uncover_tile_peeks(st, entity) ==
    LET despawned == [st EXCEPT !.commands = Append(@, DespawnRecursive(entity))]
        parent == Parent(entity)
        coords == Coordinates(parent)
        peeked == logged(despawned, coords, tile_to_uncover(st.covered, coords))
    IN IF parent \notin TileEntities THEN despawned
       ELSE IF Bomb(parent) THEN [peeked EXCEPT !.boom = @ \cup {coords}]
       ELSE IF ~BombNeighbor(parent)
            THEN [peeked EXCEPT !.commands = @ \o propagation(st.covered, coords)]
       ELSE peeked

uncover_tile_peeks_no_despawn(st, entity) ==
    LET parent == Parent(entity)
        coords == Coordinates(parent)
        peeked == logged(st, coords, tile_to_uncover(st.covered, coords))
    IN IF parent \notin TileEntities THEN st
       ELSE IF Bomb(parent) THEN [peeked EXCEPT !.boom = @ \cup {coords}]
       ELSE IF ~BombNeighbor(parent)
            THEN [peeked EXCEPT !.commands = @ \o propagation(st.covered, coords)]
       ELSE peeked

\* Uncovers the neighbours of an Empty tile in the same pass instead of
\* leaving them to the next frame.
uncover_tile_eager(st, entity) ==
    LET despawned == [st EXCEPT !.commands = Append(@, DespawnRecursive(entity))]
        parent == Parent(entity)
        coords == Coordinates(parent)
        res == try_uncover_tile(st.covered, coords)
        removed == [logged(despawned, coords, res.ret) EXCEPT !.covered = res.covered]
        around == adjacent_covered_tiles(res.covered, coords)
        near == {Coordinates(Parent(around[i])) : i \in DOMAIN around}
    IN IF parent \notin TileEntities THEN despawned
       ELSE IF Bomb(parent) THEN [removed EXCEPT !.boom = @ \cup {coords}]
       ELSE IF ~BombNeighbor(parent)
            THEN [removed EXCEPT
                    !.commands = @ \o propagation(res.covered, coords),
                    !.covered = [d \in DOMAIN res.covered \ near |-> res.covered[d]]]
       ELSE removed

\* Takes the bomb counter for the bomb: "Boom !" is signalled for a
\* BombNeighbor tile and a Bomb tile is treated like an Empty one.
uncover_tile_neighbor_booms(st, entity) ==
    LET despawned == [st EXCEPT !.commands = Append(@, DespawnRecursive(entity))]
        parent == Parent(entity)
        coords == Coordinates(parent)
        res == try_uncover_tile(st.covered, coords)
        removed == [logged(despawned, coords, res.ret) EXCEPT !.covered = res.covered]
    IN IF parent \notin TileEntities THEN despawned
       ELSE IF BombNeighbor(parent) THEN [removed EXCEPT !.boom = @ \cup {coords}]
       ELSE IF ~Bomb(parent)
            THEN [removed EXCEPT !.commands = @ \o propagation(res.covered, coords)]
       ELSE removed

\* Tests the bomb counter the wrong way round: a BombNeighbor tile
\* propagates and an Empty tile does not.
uncover_tile_empty_stops(st, entity) ==
    LET despawned == [st EXCEPT !.commands = Append(@, DespawnRecursive(entity))]
        parent == Parent(entity)
        coords == Coordinates(parent)
        res == try_uncover_tile(st.covered, coords)
        removed == [logged(despawned, coords, res.ret) EXCEPT !.covered = res.covered]
    IN IF parent \notin TileEntities THEN despawned
       ELSE IF Bomb(parent) THEN [removed EXCEPT !.boom = @ \cup {coords}]
       ELSE IF BombNeighbor(parent)
            THEN [removed EXCEPT !.commands = @ \o propagation(res.covered, coords)]
       ELSE removed

\* Stops propagating once the pass has signalled "Boom !".
uncover_tile_stops_after_boom(st, entity) ==
    LET despawned == [st EXCEPT !.commands = Append(@, DespawnRecursive(entity))]
        parent == Parent(entity)
        coords == Coordinates(parent)
        res == try_uncover_tile(st.covered, coords)
        removed == [logged(despawned, coords, res.ret) EXCEPT !.covered = res.covered]
    IN IF parent \notin TileEntities THEN despawned
       ELSE IF Bomb(parent) THEN [removed EXCEPT !.boom = @ \cup {coords}]
       ELSE IF ~BombNeighbor(parent) /\ st.boom = {}
            THEN [removed EXCEPT !.commands = @ \o propagation(res.covered, coords)]
       ELSE removed

\* The body of the loop of uncover_tiles for one cover entity carrying
\* Uncover: st is the Board registry, the command buffer and what the pass
\* signalled so far.
uncover_tile(st, entity) ==
    LET despawned == [st EXCEPT !.commands = Append(@, DespawnRecursive(entity))]
        parent == Parent(entity)
        coords == Coordinates(parent)
        res == try_uncover_tile(st.covered, coords)
        removed == [logged(despawned, coords, res.ret) EXCEPT !.covered = res.covered]
    IN IF parent \notin TileEntities THEN despawned
       ELSE IF Bomb(parent) THEN [removed EXCEPT !.boom = @ \cup {coords}]
       ELSE IF ~BombNeighbor(parent)
            THEN [removed EXCEPT !.commands = @ \o propagation(res.covered, coords)]
       ELSE removed

\* The orders in which the children query may yield a set of entities.
RECURSIVE Orders(_)
Orders(S) ==
    IF S = {} THEN {<<>>}
    ELSE UNION {{<<e>> \o o : o \in Orders(S \ {e})} : e \in S}

\* A variant of the loop that visits again, in the same pass, the entities
\* on which the pass itself inserted Uncover.
uncover_loop_revisits(st, order) ==
    LET upto[i \in 0 .. Len(order)] ==
            IF i = 0 THEN st
            ELSE CHOOSE next \in {uncover_tile(prev, order[i]) : prev \in {upto[i - 1]}} :
                    TRUE
        again == SelectSeq(order, LAMBDA e : e \in Inserted(upto[Len(order)].commands))
        more[i \in 0 .. Len(again)] ==
            IF i = 0 THEN upto[Len(order)]
            ELSE CHOOSE next \in {uncover_tile(prev, again[i]) : prev \in {more[i - 1]}} :
                    TRUE
    IN more[Len(again)]

\* The loop of uncover_tiles over the entities in the given order.
uncover_loop(st, order) ==
    LET upto[i \in 0 .. Len(order)] ==
            IF i = 0 THEN st
            ELSE CHOOSE next \in {uncover_tile(prev, order[i]) : prev \in {upto[i - 1]}} :
                    TRUE
    IN upto[Len(order)]

uncover_tiles ==
    /\ "uncover" \notin ran
    /\ \E order \in Orders(uncover \cap covers) :
       \E done \in {uncover_loop([covered |-> covered_tiles, commands |-> <<>>,
                                  boom |-> {}, uncovered |-> uncovered,
                                  stale |-> {}], order)} :
           /\ covered_tiles' = done.covered
           /\ uncover_cmds' = done.commands
           /\ boom' = done.boom
           /\ uncovered' = done.uncovered
           /\ stale' = done.stale
    /\ ran' = ran \cup {"uncover"}
    /\ UNCHANGED <<options, tile_map, covers, uncover, trigger_cmds, events,
                   triggered, duplicated, triggers_left>>

\* End of the stage: the command buffers of the systems are applied in the
\* order the systems were added to the stage, and the frame is over.
apply_buffers ==
    /\ ran = {"trigger", "uncover"}
    /\ \E world \in {apply(uncover_cmds,
                           apply(trigger_cmds, [covers |-> covers, uncover |-> uncover]))} :
          /\ covers' = world.covers
          /\ uncover' = world.uncover
          /\ duplicated' = {e \in world.uncover :
                                Insertions(trigger_cmds \o uncover_cmds, e) >= 2}
    /\ trigger_cmds' = <<>>
    /\ uncover_cmds' = <<>>
    /\ events' = <<>>
    /\ boom' = {}
    /\ stale' = {}
    /\ ran' = {}
    /\ UNCHANGED <<options, tile_map, covered_tiles, triggered, uncovered,
                   triggers_left>>

Next ==
    \/ trigger_event_handler
    \/ uncover_tiles
    \/ apply_buffers

Spec == Init /\ [][Next]_vars

\* The update stage runs every frame: a step that can change the state is
\* eventually taken.
LiveSpec == Spec /\ WF_vars(Next)

\* The board built from any bomb count, left to itself.
ConfigSpec == InitAnyBombCount /\ [][Next]_vars

----------------------------------------------------------------------------
\* Properties

Covered == DOMAIN covered_tiles

Revealed == Coords \ Covered

\* The coordinates whose cover carries Uncover: the pending set.
Pending == Coordinates_of(uncover)

IsEmptyTile(c) == tile_map[c] = Empty

\* C1: with the trigger events exhausted, repeated frames reach a state
\* where no cover carries Uncover and none is scheduled to, and it stays so.
Termination == <>[](uncover = {} /\ Inserted(uncover_cmds) = {})

\* A frame boundary with an empty pending set after a propagation revealed
\* a coordinate no trigger asked for.
TerminationWitness ==
    /\ ran = {}
    /\ uncover = {}
    /\ ~options.safe_start
    /\ \E c \in Revealed : c \notin triggered

\* C2: every cover the reveal pass schedules by propagation lies over a
\* tile that is not a Bomb, and a Bomb tile that was uncovered was the
\* target of a trigger event.
PropagationNeverReachesBomb ==
    /\ \A e \in Inserted(uncover_cmds) : ~Bomb(Parent(e))
    /\ \A c \in Coords : Bomb(TileEntity(c)) /\ uncovered[c] > 0 => c \in triggered

\* The pass schedules, by propagation, a tile next to a bomb.
PropagationNearBombWitness ==
    \E e \in Inserted(uncover_cmds) : BombNeighbor(Parent(e))

\* C3: a coordinate is in the covered registry iff its cover still exists
\* and the pass of this frame has not removed it; at a frame boundary, iff
\* its cover exists.
RegistryInvariant ==
    \A c \in Coords :
        c \in Covered <=>
            /\ CoverEntity(c) \in covers
            /\ CoverEntity(c) \notin Despawned(uncover_cmds)

\* A frame boundary with revealed and covered coordinates.
RegistryWitness ==
    /\ ran = {}
    /\ Revealed # {}
    /\ Covered # {}
    /\ triggered # {}

\* C4: a revealed coordinate stays out of the registry, and at every frame
\* boundary no revealed coordinate is pending.
MonotonicReveal ==
    [][/\ \A c \in Revealed : c \notin DOMAIN covered_tiles'
       /\ ran' = {} => \A c \in Coords \ DOMAIN covered_tiles' :
                            CoverEntity(c) \notin uncover']_vars

\* The pass revealed one cover that a trigger scheduled in the same frame
\* and one that its own propagation scheduled in the same frame.
SameTickScheduleWitness ==
    /\ Inserted(trigger_cmds) \cap Despawned(uncover_cmds) # {}
    /\ Inserted(uncover_cmds) \cap Despawned(uncover_cmds) # {}

\* C5: no coordinate is successfully uncovered more than once, and exactly
\* the revealed coordinates were uncovered.
UncoveredAtMostOnce ==
    \A c \in Coords :
        /\ uncovered[c] <= 1
        /\ uncovered[c] = 1 <=> c \in Revealed

\* A coordinate uncovered once although a trigger event asked for it while
\* it was already pending, and one a trigger event asked for after the pass
\* of the same frame had revealed it.
DuplicateRequestWitness ==
    /\ \E e \in Inserted(trigger_cmds) \cap uncover :
            uncovered[Coordinates(Parent(e))] = 1
    /\ \E i \in DOMAIN events :
            /\ events[i] \in Revealed
            /\ CoverEntity(events[i]) \notin Inserted(trigger_cmds)
            /\ uncovered[events[i]] = 1

\* C6 (no formula settles it): the claim is about a pending cover whose
\* coordinate try_uncover_tile no longer finds.  No reachable state has one:
\* every cover that carries Uncover is in the registry when the pass starts,
\* so the pass never gets None.
NoStaleRequest ==
    /\ stale = {}
    /\ "uncover" \notin ran => Pending \subseteq Covered

\* No command ever addresses an entity that is gone: in the buffers, taken
\* in the order they are applied, an insertion of Uncover never follows the
\* despawn of its entity, and every entity addressed exists.
CommandsFindEntity ==
    LET cmds == trigger_cmds \o uncover_cmds
    IN \A i \in DOMAIN cmds :
        /\ cmds[i][2] \in covers
        /\ cmds[i][1] = "insert" =>
            \A j \in 1 .. i - 1 : cmds[j] # DespawnRecursive(cmds[i][2])

\* C7: the uncover of the pass removed the coordinate of every cover it
\* processed and got its entity; on every board state, try_uncover_tile on
\* a covered coordinate returns its entity and removes exactly that entry,
\* and a second try_uncover_tile returns None and changes nothing.
UncoverIdempotent ==
    /\ \A e \in Despawned(uncover_cmds) :
            /\ Coordinates(Parent(e)) \notin Covered
            /\ Coordinates(Parent(e)) \notin stale
    /\ \A c \in EventCoords :
        LET first == try_uncover_tile(covered_tiles, c)
            second == try_uncover_tile(first.covered, c)
        IN /\ c \in Covered =>
                /\ first.ret = covered_tiles[c]
                /\ DOMAIN first.covered = Covered \ {c}
                /\ \A d \in Covered \ {c} : first.covered[d] = covered_tiles[d]
           /\ c \notin Covered =>
                /\ first.ret = None
                /\ first.covered = covered_tiles
           /\ second.ret = None
           /\ second.covered = first.covered

\* The pass has just uncovered a coordinate and others are still covered.
UncoverIdempotentWitness ==
    /\ Despawned(uncover_cmds) # {}
    /\ Covered # {}
    /\ Revealed \ Coordinates_of(Despawned(uncover_cmds)) # {}

RECURSIVE SumOver(_, _)
SumOver(f, S) ==
    IF S = {} THEN 0
    ELSE LET c == CHOOSE x \in S : TRUE IN f[c] + SumOver(f, S \ {c})

\* C8: in every step the registry loses as many entries as the step made
\* successful uncovers, keeps the others as they were and gains none; a
\* step other than the reveal pass leaves it unchanged.
RegistryOnlyShrinks ==
    [][/\ DOMAIN covered_tiles' \subseteq Covered
       /\ \A c \in DOMAIN covered_tiles' : covered_tiles'[c] = covered_tiles[c]
       /\ Cardinality(Covered) - Cardinality(DOMAIN covered_tiles') =
            SumOver(uncovered', Coords) - SumOver(uncovered, Coords)
       /\ ("uncover" \in ran \/ "uncover" \notin ran') =>
            covered_tiles' = covered_tiles]_vars

\* One pass uncovered two coordinates in a frame whose trigger events found
\* a covered and a not-covered coordinate.
RegistryShrinkWitness ==
    /\ Cardinality(Despawned(uncover_cmds)) >= 2
    /\ Len(events) = 2
    /\ Len(trigger_cmds) = 1

\* C9: a cover the pass schedules by propagation, and that was not pending
\* in this frame, is still covered when the pass is over, and at the end of
\* the frame it is pending and still covered.
DeferredPropagation ==
    [][/\ \A e \in Inserted(uncover_cmds') \ uncover' :
            /\ Coordinates(Parent(e)) \in DOMAIN covered_tiles'
            /\ e \in covers'
            /\ e \notin Despawned(uncover_cmds')
       /\ ran' = {} =>
            \A e \in Inserted(uncover_cmds) \ uncover :
                /\ e \in uncover'
                /\ Coordinates(Parent(e)) \in DOMAIN covered_tiles']_vars

\* The pass uncovered a tile that only propagation had scheduled, and
\* schedules covers that were not pending.
DeferredPropagationWitness ==
    /\ ~options.safe_start
    /\ Coordinates_of(Despawned(uncover_cmds)) \ triggered # {}
    /\ Inserted(uncover_cmds) \ uncover # {}

\* C10: every insertion of Uncover by the pass follows, with only other
\* insertions in between, the despawn of a cover over an Empty tile next to
\* it: the uncover of a Bomb or BombNeighbor tile schedules nothing.
OnlyEmptyPropagates ==
    \A i \in DOMAIN uncover_cmds :
        uncover_cmds[i][1] = "insert" =>
            \E j \in 1 .. i - 1 :
                /\ uncover_cmds[j][1] = "despawn"
                /\ \A k \in j + 1 .. i : uncover_cmds[k][1] = "insert"
                /\ IsEmptyTile(Coordinates(Parent(uncover_cmds[j][2])))
                /\ Chebyshev(Coordinates(Parent(uncover_cmds[j][2])),
                             Coordinates(Parent(uncover_cmds[i][2]))) = 1

\* One pass uncovered a Bomb tile and a BombNeighbor tile that both have
\* covered neighbours.
OnlyEmptyPropagatesWitness ==
    /\ \E e \in Despawned(uncover_cmds) :
            /\ Bomb(Parent(e))
            /\ Neighbors(Coordinates(Parent(e))) \cap Covered # {}
    /\ \E e \in Despawned(uncover_cmds) :
            /\ BombNeighbor(Parent(e))
            /\ Neighbors(Coordinates(Parent(e))) \cap Covered # {}

----------------------------------------------------------------------------
\* C11: loss signalling. The loss signal of the source is the "Boom !" record
\* of uncover_tiles (the explosion event is a TODO there). When the pass of a
\* frame has run, the coordinates it signalled are exactly the coordinates it
\* uncovered whose tile is Bomb: every uncovered Bomb is signalled in that
\* frame, and no uncovered Empty or BombNeighbor tile is. Outside a pass
\* nothing is signalled.
UncoveredThisFrame == Coordinates_of(Despawned(uncover_cmds))

----------------------------------------------------------------------------
\* C12: safe-start selection. Before anything is revealed or requested, the
\* pending set is exactly the first coordinate in row-major order (y
\* ascending, then x ascending) whose tile is Empty when safe-start is enabled
\* and the map has an Empty tile, and is empty otherwise (safe-start disabled,
\* or no Empty tile, as when bomb_count >= width * height); in the second case
\* nothing is ever revealed or pending as long as no trigger request came in.
EmptyTiles == {c \in Coords : tile_map[c] = Empty}

RowMajorBefore(c, d) == c[2] < d[2] \/ (c[2] = d[2] /\ c[1] <= d[1])

SafeStartSeed ==
    IF options.safe_start /\ EmptyTiles # {}
    THEN {CHOOSE c \in EmptyTiles : \A d \in EmptyTiles : RowMajorBefore(c, d)}
    ELSE {}

SafeStartSelection ==
    /\ (ran = {} /\ Revealed = {} /\ triggered = {}) => Pending = SafeStartSeed
    /\ (SafeStartSeed = {} /\ triggered = {}) => (Revealed = {} /\ uncover = {})

\* Safe start is enabled, the first tiles in row-major order are not Empty,
\* and the seed, a later tile, is what the first pass has just uncovered.
SafeStartSelectionWitness ==
    /\ options.safe_start
    /\ tile_map[<<0, 0>>] # Empty
    /\ tile_map[<<1, 0>>] # Empty
    /\ Cardinality(EmptyTiles) >= 2
    /\ "uncover" \in ran
    /\ UncoveredThisFrame = SafeStartSeed
    /\ Revealed = SafeStartSeed

----------------------------------------------------------------------------
\* C13: bounded reveal time on a bomb-free grid. With bomb_count = 0 and a
\* single requested coordinate c (one trigger target, or the safe-start seed)
\* the reveal advances one Chebyshev ring per frame: between frames, for some
\* k, the revealed cells are those at distance less than k from c and the
\* pending ones those at distance k, and a frame that starts so for k ends so
\* for k + 1. The first frame that processes c is k = 0, hence every cell at
\* distance d is uncovered by the end of frame d + 1 of the reveal and the
\* registry is empty after 1 + (largest distance from c) frames.
Requests == triggered \cup SafeStartSeed

Ball(c, k) == {d \in Coords : Chebyshev(c, d) <= k}

Sphere(c, k) == {d \in Coords : Chebyshev(c, d) = k}

LargestDistance(c) == CHOOSE k \in 0 .. Width + Height : Ball(c, k) = Coords /\ Sphere(c, k) # {}

SingleRequest == options.bomb_count = 0 /\ Cardinality(Requests) = 1

RingAdvance ==
    (ran # {} /\ ran' = {} /\ SingleRequest) =>
        \A c \in Requests : \A k \in 0 .. LargestDistance(c) :
            (/\ Coords \ Coordinates_of(covers) = Ball(c, k - 1)
             /\ Pending = Sphere(c, k))
            => /\ Covered' = Coords \ Ball(c, k)
               /\ Coords \ Coordinates_of(covers') = Ball(c, k)
               /\ Pending' = Sphere(c, k + 1)

RingBetweenFrames ==
    (ran = {} /\ SingleRequest) =>
        \A c \in Requests : \E k \in 0 .. LargestDistance(c) + 1 :
            /\ Revealed = Ball(c, k - 1)
            /\ Pending = Sphere(c, k)

BoundedRevealTime == []RingBetweenFrames /\ [][RingAdvance]_vars

\* A trigger request away from the safe-start corner on a bomb-free grid,
\* two frames into its reveal with the last ring pending.
BoundedRevealTimeWitness ==
    /\ options.bomb_count = 0
    /\ ~options.safe_start
    /\ ran = {}
    /\ \E c \in triggered :
        /\ triggered = {c}
        /\ c # <<0, 0>>
        /\ Revealed = Ball(c, 1)
        /\ Pending = Sphere(c, 2)
        /\ Pending # {}

----------------------------------------------------------------------------
\* C14: deduplication within a frame. However often Uncover was inserted on a
\* cover for a frame (several trigger events, several propagating neighbours,
\* a trigger and a propagation), the pass of that frame processes the cover
\* exactly once: it is despawned once, its coordinate is uncovered once, and
\* it propagates once, so that a cover left standing received one insertion
\* from each Empty tile uncovered next to it and no more.
Despawns(cmds, e) == Cardinality({i \in DOMAIN cmds : cmds[i] = DespawnRecursive(e)})

Deduplication ==
    /\ duplicated \subseteq uncover
    /\ "uncover" \in ran =>
        /\ \A e \in uncover :
            /\ Despawns(uncover_cmds, e) = 1
            /\ uncovered[Coordinates(Parent(e))] = 1
        /\ \A e \in covers \ Despawned(uncover_cmds) :
            Insertions(uncover_cmds, e) =
                Cardinality({c \in UncoveredThisFrame \cap Neighbors(Coordinates(Parent(e))) :
                                IsEmptyTile(c)})

\* A pass has processed a cover over an Empty tile that was requested more
\* than once for this frame, and it propagated.
DeduplicationWitness ==
    /\ "uncover" \in ran
    /\ \E e \in duplicated :
        /\ IsEmptyTile(Coordinates(Parent(e)))
        /\ e \in Despawned(uncover_cmds)
        /\ Inserted(uncover_cmds) # {}

----------------------------------------------------------------------------
\* C15: out-of-range and already-revealed requests are harmless. For every
\* coordinate outside the grid and every revealed coordinate, tile_to_uncover
\* and try_uncover_tile return None and leave the registry as it is, and a
\* run of trigger_event_handler whose events name such coordinates inserts
\* Uncover for none of them and changes neither the registry, the covers nor
\* the pending set.
HarmlessLookups ==
    \A c \in EventCoords \ Covered :
        /\ tile_to_uncover(covered_tiles, c) = None
        /\ try_uncover_tile(covered_tiles, c).ret = None
        /\ try_uncover_tile(covered_tiles, c).covered = covered_tiles
        /\ trigger_commands(covered_tiles, <<c, c>>) = <<>>

HarmlessEvents ==
    ("trigger" \notin ran /\ "trigger" \in ran') =>
        /\ \A i \in DOMAIN events' :
              events'[i] \notin Covered =>
                  \A j \in DOMAIN trigger_cmds' :
                      Coordinates(Parent(trigger_cmds'[j][2])) # events'[i]
        /\ Len(trigger_cmds') =
              Cardinality({i \in DOMAIN events' : events'[i] \in Covered})
        /\ UNCHANGED <<covered_tiles, covers, uncover>>

HarmlessRequests == []HarmlessLookups /\ [][HarmlessEvents]_vars

\* The handler has run on an event outside the grid and an event for a
\* coordinate revealed in an earlier frame, and recorded no command.
HarmlessRequestsWitness ==
    /\ "trigger" \in ran
    /\ Len(events) = 2
    /\ events[1] \notin Coords
    /\ events[2] \in Coords \ Coordinates_of(covers)
    /\ trigger_cmds = <<>>
    /\ Covered # {}

----------------------------------------------------------------------------
\* C16: adjacent covered tiles. For every coordinate c of the grid, corners
\* and edges included, adjacent_covered_tiles returns, each once, exactly the
\* covers of the coordinates at Chebyshev distance 1 from c that lie inside
\* the grid and are in the registry: never c itself, never a coordinate
\* outside the grid, never a revealed neighbour. Accordingly the insertions
\* that follow the despawn of a cover over an Empty tile in the buffer of a
\* pass name exactly the neighbours that were covered at that point of the
\* pass: those still in the registry and those the pass uncovered later.
DespawnsAfter(j) ==
    {k \in DOMAIN uncover_cmds : k > j /\ uncover_cmds[k][1] = "despawn"}

PropagatedAt(j) ==
    {uncover_cmds[k][2] : k \in {i \in DOMAIN uncover_cmds :
                                    /\ i > j
                                    /\ uncover_cmds[i][1] = "insert"
                                    /\ \A d \in DespawnsAfter(j) : i < d}}

AdjacentCovered ==
    /\ \A c \in Coords :
        LET adjacent == adjacent_covered_tiles(covered_tiles, c)
        IN /\ {adjacent[i] : i \in DOMAIN adjacent} =
                  {covered_tiles[d] : d \in Neighbors(c) \cap Covered}
           /\ Len(adjacent) = Cardinality(Neighbors(c) \cap Covered)
    /\ \A j \in DOMAIN uncover_cmds :
        LET c == Coordinates(Parent(uncover_cmds[j][2]))
        IN (uncover_cmds[j][1] = "despawn" /\ IsEmptyTile(c)) =>
              PropagatedAt(j) =
                  {CoverEntity(d) : d \in {n \in Neighbors(c) :
                      \/ n \in Covered
                      \/ \E k \in DespawnsAfter(j) :
                            uncover_cmds[k][2] = CoverEntity(n)}}

\* A pass uncovered an Empty tile that had a neighbour revealed in an earlier
\* frame, a neighbour uncovered earlier in the same pass, and a neighbour
\* still covered.
AdjacentCoveredWitness ==
    \E j \in DOMAIN uncover_cmds :
        LET c == Coordinates(Parent(uncover_cmds[j][2]))
        IN /\ uncover_cmds[j][1] = "despawn"
           /\ IsEmptyTile(c)
           /\ Neighbors(c) \ Coordinates_of(covers) # {}
           /\ \E i \in 1 .. j - 1 :
                 /\ uncover_cmds[i][1] = "despawn"
                 /\ Coordinates(Parent(uncover_cmds[i][2])) \in Neighbors(c)
           /\ Neighbors(c) \cap Covered # {}
           /\ Cardinality(PropagatedAt(j)) < Cardinality(Neighbors(c))

----------------------------------------------------------------------------
\* C17: map generation. For every bomb_count the generated map has exactly
\* min(bomb_count, width * height) Bomb tiles, each cell holding one tile, and
\* a bomb_count of width * height or more is accepted and gives the map whose
\* every tile is Bomb.
BombTiles == {c \in Coords : tile_map[c].kind = "Bomb"}

----------------------------------------------------------------------------
\* C18: the flood fill is complete at quiescence. In every reachable state
\* with no cover pending, no revealed Empty tile has a covered neighbour;
\* equivalently, the 8-connected region of Empty tiles around every revealed
\* Empty tile is revealed together with the tiles bordering it.
RECURSIVE FloodFrom(_)
FloodFrom(S) ==
    LET grown == S \cup UNION {Neighbors(c) : c \in {d \in S : IsEmptyTile(d)}}
    IN IF grown = S THEN S ELSE FloodFrom(grown)

FloodFillComplete ==
    uncover = {} =>
        /\ \A c \in Revealed : IsEmptyTile(c) => Neighbors(c) \subseteq Revealed
        /\ \A c \in Revealed : IsEmptyTile(c) => FloodFrom({c}) \subseteq Revealed

\* A reveal has settled between frames: an Empty region and its border of
\* BombNeighbor tiles are revealed, and covered tiles remain beyond it.
FloodFillCompleteWitness ==
    /\ uncover = {}
    /\ ran = {}
    /\ Covered # {}
    /\ \E c \in Revealed :
        /\ IsEmptyTile(c)
        /\ Cardinality(FloodFrom({c})) >= 4
        /\ \E d \in FloodFrom({c}) \ {c} : IsEmptyTile(d)
        /\ \E d \in FloodFrom({c}) : tile_map[d].kind = "BombNeighbor"

----------------------------------------------------------------------------
\* C19: no spurious reveal. In every reachable state every revealed
\* coordinate was the target of a trigger event, or is the safe-start seed,
\* or is adjacent to a revealed Empty tile.
NextToRevealedEmpty(c) == \E d \in Neighbors(c) \cap Revealed : IsEmptyTile(d)

NoSpuriousReveal ==
    \A c \in Revealed :
        \/ c \in triggered
        \/ c \in SafeStartSeed
        \/ NextToRevealedEmpty(c)

\* Tiles revealed for each of the three reasons alone, with covered tiles
\* left: the seed, a trigger target away from every revealed Empty tile, and
\* a tile reached by propagation only.
NoSpuriousRevealWitness ==
    /\ Covered # {}
    /\ \E c \in Revealed : c \in SafeStartSeed /\ c \notin triggered
    /\ \E c \in Revealed :
        c \in triggered /\ c \notin SafeStartSeed /\ ~NextToRevealedEmpty(c)
    /\ \E c \in Revealed :
        c \notin triggered /\ c \notin SafeStartSeed /\ NextToRevealedEmpty(c)

----------------------------------------------------------------------------
\* C20: order independence within a frame. Whenever uncover_tiles runs, every
\* order in which the query could have yielded the pending covers gives the
\* registry the pass actually left, the same "Boom !" signals, the same
\* still-covered coordinates marked for the next frame, and command buffers
\* that leave the same covers and the same pending set when applied.
StillCovered(cmds, covered) ==
    {c \in Coordinates_of(Inserted(cmds)) : c \in DOMAIN covered}

SameOutcomeInEveryOrder ==
    ("uncover" \notin ran /\ "uncover" \in ran') =>
        \A order \in Orders(uncover \cap covers) :
        \A done \in {uncover_loop([covered |-> covered_tiles, commands |-> <<>>,
                                   boom |-> {}, uncovered |-> uncovered,
                                   stale |-> {}], order)} :
            /\ done.covered = covered_tiles'
            /\ done.boom = boom'
            /\ StillCovered(done.commands, done.covered)
                  = StillCovered(uncover_cmds', covered_tiles')
            /\ apply(done.commands, [covers |-> covers, uncover |-> uncover])
                  = apply(uncover_cmds', [covers |-> covers, uncover |-> uncover])

OrderIndependence == [][SameOutcomeInEveryOrder]_vars

\* A pass over three or more covers, a Bomb among them, whose buffer depends
\* on the order: it inserts Uncover on a cover it also despawns.
OrderIndependenceWitness ==
    /\ "uncover" \in ran
    /\ Cardinality(uncover) >= 3
    /\ boom # {}
    /\ Inserted(uncover_cmds) \cap Despawned(uncover_cmds) # {}

====
